---- MODULE Spec2Model ----
(***************************************************************************)
(* Spin locks and nested interrupt disabling of kernel/spinlock.c, and the *)
(* machine-mode boot of each hart (start and timerinit of kernel/start.c). *)
(*                                                                         *)
(* Every core runs kernel code that calls initlock, acquire, release,      *)
(* holding, push_off and pop_off.  A core's control state is a stack of    *)
(* frames, one per active function; one action is one statement that       *)
(* touches memory or the interrupt-enable bit.  Calls and returns are      *)
(* core-private and are folded into the statement before them.             *)
(***************************************************************************)
EXTENDS Integers, Sequences, FiniteSets, TLC

\* Number of cores of the model.
NCPU == 2
\* Deepest push_off nesting the kernel code of the model drives a core to.
MaxNoff == 2
\* Iterations of the counter loop of each core (scenario B, scaled down).
Iter == 2

Cores == 1..NCPU
\* lk->cpu = 0: no owner.
NoCpu == 0
\* The hart that runs the boot-time initialisation.
BootCpu == 1
LockSeq == <<"L1", "L2">>
Locks == {LockSeq[i] : i \in 1..Len(LockSeq)}
\* The lock the timer interrupt handler takes.
TickLock == LockSeq[1]
\* The lock that is initialised last.
LastLock == LockSeq[Len(LockSeq)]

VARIABLES
  locked,    \* lk->locked, per lock
  lkcpu,     \* lk->cpu, per lock (a core, or NoCpu)
  lkname,    \* lk->name, per lock
  inited,    \* initlock has run on the lock
  noff,      \* mycpu()->noff, per core
  intena,    \* mycpu()->intena, per core
  intr,      \* the core's interrupt-enable bit (intr_get)
  stack,     \* per core: the active frames, innermost last
  panicked,  \* per core: "" or the message of the panic that stopped it
  cs,        \* per core: locks whose acquire returned and whose release
             \* has not yet cleared the lock word
  amb,       \* per core: interrupt-enable bit when the kernel code made its
             \* outermost push_off (directly or through acquire)
  prog,      \* per core: the kernel code it runs
  ip,        \* per core: position in a scripted program
  counter,   \* the shared counter of scenario B
  tmp,       \* per core: the value read from the counter
  regs,      \* per core: the hart's registers (machine and supervisor CSRs, tp)
  bpc,       \* per core: where the hart is in start() and timerinit()
  tread,     \* per core: the value timerinit read from CLINT_MTIME
  mtime,     \* CLINT_MTIME, the cycle counter of the machine
  mtimecmp,  \* CLINT_MTIMECMP(id), per hart id
  timer_scratch, \* timer_scratch[NCPU][5]
  sb,        \* per core: its stores to the shared counter that have not reached
             \* memory yet, oldest first
  early,     \* per core: the value of the shared counter it loaded ahead of
             \* its next load, or NoLoad
  pushes     \* per core: the push_off calls of its kernel code minus the
             \* pop_off calls of its kernel code

vars == <<locked, lkcpu, lkname, inited, noff, intena, intr, stack, panicked,
          cs, amb, prog, ip, counter, tmp,
          regs, bpc, tread, mtime, mtimecmp, timer_scratch, sb, early,
          pushes>>

lockvars == <<locked, lkcpu, lkname, inited>>
cpuvars == <<noff, intena, intr>>
drivervars == <<prog, ip, counter, tmp, amb, pushes>>
bootvars == <<regs, bpc, tread, mtime, mtimecmp, timer_scratch>>
memvars == <<sb, early>>
\* early[c] when core c holds no early load.
NoLoad == -1

----------------------------------------------------------------------------
\* Frames and control flow

F(fn, pc, lk, v) == [fn |-> fn, pc |-> pc, lk |-> lk, v |-> v]

Running(c) == panicked[c] = ""
Idle(c) == Running(c) /\ stack[c] = <<>>
Top(c) == stack[c][Len(stack[c])]
Pop(stk) == SubSeq(stk, 1, Len(stk) - 1)
At(c, fn, pc) ==
  /\ Running(c)
  /\ stack[c] # <<>>
  /\ Top(c).fn = fn
  /\ Top(c).pc = pc

InTrap(c) == \E i \in 1..Len(stack[c]) : stack[c][i].fn = "trap"

AllInited == \A l \in Locks : inited[l]

\* What the entry of each function does before its first memory access.
\* Variant of CallAcquire that goes to the holding check without push_off.
CallAcquire_no_push_off(l) ==
  <<F("acquire", "hold", l, FALSE), F("holding", "locked", l, FALSE)>>

CallAcquire(l) == <<F("acquire", "push", l, FALSE), F("push_off", "get", "", FALSE)>>
CallRelease(l) == <<F("release", "hold", l, FALSE), F("holding", "locked", l, FALSE)>>
CallHolding(l) == <<F("holding", "locked", l, FALSE)>>
CallPushOff == <<F("push_off", "get", "", FALSE)>>
CallPopOff == <<F("pop_off", "chk", "", FALSE)>>

\* The timer interrupt handler: acquire(&tickslock); release(&tickslock); sret.
TrapResume(t, rest) ==
  IF t.pc = "acq"
  THEN [stk |-> Append(rest, F("trap", "rel", "", FALSE)) \o CallRelease(TickLock),
        pan |-> ""]
  ELSE [stk |-> Append(rest, F("trap", "sret", "", FALSE)), pan |-> ""]

\* Variant of AcquireResume without the holding check.
AcquireResume_no_check(t, rest, r) ==
  IF t.pc = "push"
  THEN [stk |-> Append(rest, F("acquire", "hold", t.lk, FALSE)) \o CallHolding(t.lk),
        pan |-> ""]
  ELSE [stk |-> Append(rest, F("acquire", "swap", t.lk, FALSE)), pan |-> ""]

\* acquire after push_off returned: if(holding(lk)) ...
\* acquire after holding returned r: panic("acquire") or go on to the swap.
AcquireResume(t, rest, r) ==
  IF t.pc = "push"
  THEN [stk |-> Append(rest, F("acquire", "hold", t.lk, FALSE)) \o CallHolding(t.lk),
        pan |-> ""]
  ELSE IF r
       THEN [stk |-> Append(rest, t), pan |-> "acquire"]
       ELSE [stk |-> Append(rest, F("acquire", "swap", t.lk, FALSE)), pan |-> ""]

\* Variant of ReleaseResume without the holding check.
ReleaseResume_no_check(t, rest, r) ==
  [stk |-> Append(rest, F("release", "clrcpu", t.lk, FALSE)), pan |-> ""]

\* release after holding returned r: panic("release") or go on to lk->cpu = 0.
ReleaseResume(t, rest, r) ==
  IF ~r
  THEN [stk |-> Append(rest, t), pan |-> "release"]
  ELSE [stk |-> Append(rest, F("release", "clrcpu", t.lk, FALSE)), pan |-> ""]

\* The stack after a callee returned r to the frame on top of stk.
RECURSIVE Resume(_, _)
Resume(stk, r) ==
  IF stk = <<>>
  THEN [stk |-> <<>>, pan |-> ""]
  ELSE LET t == stk[Len(stk)]
           rest == Pop(stk)
       IN  CASE t.fn = "acquire" -> AcquireResume(t, rest, r)
             [] t.fn = "release" /\ t.pc = "hold" -> ReleaseResume(t, rest, r)
             [] t.fn = "release" /\ t.pc = "pop" -> Resume(rest, r)
             [] t.fn = "trap" -> TrapResume(t, rest)

\* The top frame returns r.
Return(c, r) ==
  LET res == Resume(Pop(stack[c]), r)
  IN  /\ stack' = [stack EXCEPT ![c] = res.stk]
      /\ panicked' = [panicked EXCEPT ![c] = res.pan]

Panic(c, msg) ==
  /\ panicked' = [panicked EXCEPT ![c] = msg]
  /\ UNCHANGED stack

Goto(c, pc) ==
  /\ stack' = [stack EXCEPT ![c] = Append(Pop(stack[c]), [Top(c) EXCEPT !.pc = pc])]
  /\ UNCHANGED panicked

----------------------------------------------------------------------------
\* kernel/spinlock.c

\* initlock, run by the boot hart on each lock in turn before anything else.
initlock(c, l) ==
  /\ c = BootCpu
  /\ Idle(c)
  /\ ~inited[l]
  /\ \A i \in 1..Len(LockSeq) :
       LockSeq[i] = l => \A j \in 1..(i - 1) : inited[LockSeq[j]]
  /\ lkname' = [lkname EXCEPT ![l] = l]
  /\ locked' = [locked EXCEPT ![l] = 0]
  /\ lkcpu' = [lkcpu EXCEPT ![l] = NoCpu]
  /\ inited' = [inited EXCEPT ![l] = TRUE]
  /\ UNCHANGED <<cpuvars, stack, panicked, cs, drivervars, bootvars, memvars>>

\* push_off: int old = intr_get();
push_off_get(c) ==
  /\ At(c, "push_off", "get")
  /\ stack' = [stack EXCEPT ![c] = Append(Pop(stack[c]), F("push_off", "off", "", intr[c]))]
  /\ UNCHANGED <<lockvars, cpuvars, panicked, cs, drivervars, bootvars, memvars>>

\* Variant of push_off_off that leaves interrupts enabled (no intr_off).
push_off_off_no_intr_off(c) ==
  /\ At(c, "push_off", "off")
  /\ intena' = [intena EXCEPT ![c] = IF noff[c] = 0 THEN Top(c).v ELSE @]
  /\ noff' = [noff EXCEPT ![c] = @ + 1]
  /\ Return(c, FALSE)
  /\ UNCHANGED <<lockvars, intr, cs, drivervars, bootvars, memvars>>

\* Variant of push_off_off that saves the old interrupt state at every depth.
push_off_off_always_saves(c) ==
  /\ At(c, "push_off", "off")
  /\ intr' = [intr EXCEPT ![c] = FALSE]
  /\ intena' = [intena EXCEPT ![c] = Top(c).v]
  /\ noff' = [noff EXCEPT ![c] = @ + 1]
  /\ Return(c, FALSE)
  /\ UNCHANGED <<lockvars, cs, drivervars, bootvars, memvars>>

\* Variant of push_off_off that sets the nesting counter to 1.
push_off_off_no_nesting(c) ==
  /\ At(c, "push_off", "off")
  /\ intr' = [intr EXCEPT ![c] = FALSE]
  /\ intena' = [intena EXCEPT ![c] = IF noff[c] = 0 THEN Top(c).v ELSE @]
  /\ noff' = [noff EXCEPT ![c] = 1]
  /\ Return(c, FALSE)
  /\ UNCHANGED <<lockvars, cs, drivervars, bootvars, memvars>>

\* push_off: intr_off(); if(noff == 0) intena = old; noff += 1;
push_off_off(c) ==
  /\ At(c, "push_off", "off")
  /\ intr' = [intr EXCEPT ![c] = FALSE]
  /\ intena' = [intena EXCEPT ![c] = IF noff[c] = 0 THEN Top(c).v ELSE @]
  /\ noff' = [noff EXCEPT ![c] = @ + 1]
  /\ Return(c, FALSE)
  /\ UNCHANGED <<lockvars, cs, drivervars, bootvars, memvars>>

\* Variant of pop_off that turns interrupts on whenever the count reaches 0.
pop_off_always_on(c) ==
  /\ At(c, "pop_off", "chk")
  /\ IF intr[c]
     THEN /\ Panic(c, "pop_off - interruptible")
          /\ UNCHANGED cpuvars
     ELSE IF noff[c] < 1
     THEN /\ Panic(c, "pop_off")
          /\ UNCHANGED cpuvars
     ELSE /\ noff' = [noff EXCEPT ![c] = @ - 1]
          /\ intr' = [intr EXCEPT ![c] = IF noff[c] - 1 = 0 THEN TRUE ELSE @]
          /\ UNCHANGED intena
          /\ Return(c, FALSE)
  /\ UNCHANGED <<lockvars, cs, drivervars, bootvars, memvars>>

\* Variant of pop_off without the check of the counter.
pop_off_no_count_check(c) ==
  /\ At(c, "pop_off", "chk")
  /\ IF intr[c]
     THEN /\ Panic(c, "pop_off - interruptible")
          /\ UNCHANGED cpuvars
     ELSE /\ noff' = [noff EXCEPT ![c] = @ - 1]
          /\ intr' = [intr EXCEPT ![c] = IF noff[c] - 1 = 0 /\ intena[c] THEN TRUE ELSE @]
          /\ UNCHANGED intena
          /\ Return(c, FALSE)
  /\ UNCHANGED <<lockvars, cs, drivervars, bootvars, memvars>>

\* pop_off, whole: the two checks, the decrement, the conditional intr_on.
pop_off(c) ==
  /\ At(c, "pop_off", "chk")
  /\ IF intr[c]
     THEN /\ Panic(c, "pop_off - interruptible")
          /\ UNCHANGED cpuvars
     ELSE IF noff[c] < 1
     THEN /\ Panic(c, "pop_off")
          /\ UNCHANGED cpuvars
     ELSE /\ noff' = [noff EXCEPT ![c] = @ - 1]
          /\ intr' = [intr EXCEPT ![c] = IF noff[c] - 1 = 0 /\ intena[c] THEN TRUE ELSE @]
          /\ UNCHANGED intena
          /\ Return(c, FALSE)
  /\ UNCHANGED <<lockvars, cs, drivervars, bootvars, memvars>>

\* holding: the read of lk->locked; && stops here when it is 0.
holding_locked(c) ==
  /\ At(c, "holding", "locked")
  /\ IF locked[Top(c).lk] = 0
     THEN stack' = [stack EXCEPT ![c] = Append(Pop(stack[c]), F("holding", "ret", Top(c).lk, FALSE))]
     ELSE stack' = [stack EXCEPT ![c] = Append(Pop(stack[c]), F("holding", "cpu", Top(c).lk, FALSE))]
  /\ UNCHANGED <<lockvars, cpuvars, panicked, cs, drivervars, bootvars, memvars>>

\* Variant of holding_cpu that does not compare the owner with mycpu().
holding_cpu_any_owner(c) ==
  /\ At(c, "holding", "cpu")
  /\ stack' = [stack EXCEPT ![c] = Append(Pop(stack[c]), F("holding", "ret", Top(c).lk, TRUE))]
  /\ UNCHANGED <<lockvars, cpuvars, panicked, cs, drivervars, bootvars, memvars>>

\* holding: the read of lk->cpu, compared with mycpu(); r is now set.
holding_cpu(c) ==
  /\ At(c, "holding", "cpu")
  /\ stack' = [stack EXCEPT ![c] =
                 Append(Pop(stack[c]), F("holding", "ret", Top(c).lk, lkcpu[Top(c).lk] = c))]
  /\ UNCHANGED <<lockvars, cpuvars, panicked, cs, drivervars, bootvars, memvars>>

\* holding: return r; the caller acts on it.
holding_ret(c) ==
  /\ At(c, "holding", "ret")
  /\ Return(c, Top(c).v)
  /\ UNCHANGED <<lockvars, cpuvars, cs, drivervars, bootvars, memvars>>

\* Variant of acquire_swap that leaves the loop whatever the old value was.
acquire_swap_no_loop(c) ==
  /\ At(c, "acquire", "swap")
  /\ LET l == Top(c).lk
     IN  /\ locked' = [locked EXCEPT ![l] = 1]
         /\ stack' = [stack EXCEPT ![c] = Append(Pop(stack[c]), F("acquire", "setcpu", l, FALSE))]
  /\ UNCHANGED <<lkcpu, lkname, inited, cpuvars, panicked, cs, drivervars, bootvars, memvars>>

\* Variant of acquire_swap that tests the lock word and does not set it.
acquire_swap_no_set(c) ==
  /\ At(c, "acquire", "swap")
  /\ LET l == Top(c).lk
     IN  IF locked[l] # 0
         THEN UNCHANGED stack
         ELSE stack' = [stack EXCEPT ![c] = Append(Pop(stack[c]), F("acquire", "setcpu", l, FALSE))]
  /\ UNCHANGED <<lockvars, cpuvars, panicked, cs, drivervars, bootvars, memvars>>

\* acquire: one __sync_lock_test_and_set(&lk->locked, 1) of the loop.
acquire_swap(c) ==
  /\ At(c, "acquire", "swap")
  /\ LET l == Top(c).lk
     IN  /\ locked' = [locked EXCEPT ![l] = 1]
         /\ IF locked[l] # 0
            THEN UNCHANGED stack
            ELSE stack' = [stack EXCEPT ![c] = Append(Pop(stack[c]), F("acquire", "setcpu", l, FALSE))]
  /\ UNCHANGED <<lkcpu, lkname, inited, cpuvars, panicked, cs, drivervars, bootvars, memvars>>

\* Variant of acquire_setcpu that records cpus[0] instead of mycpu().
acquire_setcpu_first_cpu(c) ==
  /\ At(c, "acquire", "setcpu")
  /\ LET l == Top(c).lk
     IN  /\ lkcpu' = [lkcpu EXCEPT ![l] = BootCpu]
         /\ cs' = [cs EXCEPT ![c] = @ \cup {l}]
  /\ early' = [early EXCEPT ![c] = NoLoad]
  /\ Return(c, FALSE)
  /\ UNCHANGED <<locked, lkname, inited, cpuvars, drivervars, bootvars, sb>>

\* Variant of acquire_setcpu without the fence: early loads are kept.
acquire_setcpu_no_fence(c) ==
  /\ At(c, "acquire", "setcpu")
  /\ LET l == Top(c).lk
     IN  /\ lkcpu' = [lkcpu EXCEPT ![l] = c]
         /\ cs' = [cs EXCEPT ![c] = @ \cup {l}]
  /\ Return(c, FALSE)
  /\ UNCHANGED <<locked, lkname, inited, cpuvars, drivervars, bootvars, memvars>>

\* acquire: __sync_synchronize(); lk->cpu = mycpu(); return.
\* The fence keeps the loads of the critical section after the exchange: a
\* value loaded before it is discarded.
acquire_setcpu(c) ==
  /\ At(c, "acquire", "setcpu")
  /\ LET l == Top(c).lk
     IN  /\ lkcpu' = [lkcpu EXCEPT ![l] = c]
         /\ cs' = [cs EXCEPT ![c] = @ \cup {l}]
  /\ early' = [early EXCEPT ![c] = NoLoad]
  /\ Return(c, FALSE)
  /\ UNCHANGED <<locked, lkname, inited, cpuvars, drivervars, bootvars, sb>>

\* Variant of release_clrcpu that leaves the owner in place.
release_clrcpu_keep_owner(c) ==
  /\ At(c, "release", "clrcpu")
  /\ sb[c] = <<>>
  /\ Goto(c, "clear")
  /\ UNCHANGED <<lockvars, cpuvars, cs, drivervars, bootvars, memvars>>

\* Variant of release_clrcpu without the fence: it does not wait for the
\* stores of the core to reach memory.
release_clrcpu_no_fence(c) ==
  /\ At(c, "release", "clrcpu")
  /\ lkcpu' = [lkcpu EXCEPT ![Top(c).lk] = NoCpu]
  /\ Goto(c, "clear")
  /\ UNCHANGED <<locked, lkname, inited, cpuvars, cs, drivervars, bootvars, memvars>>

\* release: lk->cpu = 0; __sync_synchronize();
\* The fence completes when every earlier store of the core has reached
\* memory.
release_clrcpu(c) ==
  /\ At(c, "release", "clrcpu")
  /\ sb[c] = <<>>
  /\ lkcpu' = [lkcpu EXCEPT ![Top(c).lk] = NoCpu]
  /\ Goto(c, "clear")
  /\ UNCHANGED <<locked, lkname, inited, cpuvars, cs, drivervars, bootvars, memvars>>

\* Variant of release_clear that returns without calling pop_off.
release_clear_no_pop(c) ==
  /\ At(c, "release", "clear")
  /\ LET l == Top(c).lk
     IN  /\ locked' = [locked EXCEPT ![l] = 0]
         /\ cs' = [cs EXCEPT ![c] = @ \ {l}]
  /\ Return(c, FALSE)
  /\ UNCHANGED <<lkcpu, lkname, inited, cpuvars, drivervars, bootvars, memvars>>

\* Variant of release_clear that leaves the lock word set.
release_clear_keeps_word(c) ==
  /\ At(c, "release", "clear")
  /\ LET l == Top(c).lk
     IN  /\ cs' = [cs EXCEPT ![c] = @ \ {l}]
         /\ stack' = [stack EXCEPT ![c] =
                        Append(Pop(stack[c]), F("release", "pop", l, FALSE)) \o CallPopOff]
  /\ UNCHANGED <<lockvars, cpuvars, panicked, drivervars, bootvars, memvars>>

\* release: __sync_lock_release(&lk->locked); then the call of pop_off.
release_clear(c) ==
  /\ At(c, "release", "clear")
  /\ LET l == Top(c).lk
     IN  /\ locked' = [locked EXCEPT ![l] = 0]
         /\ cs' = [cs EXCEPT ![c] = @ \ {l}]
         /\ stack' = [stack EXCEPT ![c] =
                        Append(Pop(stack[c]), F("release", "pop", l, FALSE)) \o CallPopOff]
  /\ UNCHANGED <<lkcpu, lkname, inited, cpuvars, panicked, drivervars, bootvars, memvars>>

----------------------------------------------------------------------------
\* The timer interrupt

\* A timer interrupt is taken: the hardware clears the interrupt-enable bit
\* and the handler starts with acquire(&tickslock).
TimerInterrupt(c) ==
  /\ Running(c)
  /\ AllInited
  /\ intr[c]
  /\ ~InTrap(c)
  /\ intr' = [intr EXCEPT ![c] = FALSE]
  /\ stack' = [stack EXCEPT ![c] =
                 Append(@, F("trap", "acq", "", FALSE)) \o CallAcquire(TickLock)]
  /\ UNCHANGED <<lockvars, noff, intena, panicked, cs, drivervars, bootvars, memvars>>

\* The handler returns: sret sets the interrupt-enable bit again.
sret(c) ==
  /\ At(c, "trap", "sret")
  /\ intr' = [intr EXCEPT ![c] = TRUE]
  /\ stack' = [stack EXCEPT ![c] = Pop(@)]
  /\ UNCHANGED <<lockvars, noff, intena, panicked, cs, drivervars, bootvars, memvars>>

----------------------------------------------------------------------------
\* Kernel code that uses the locks

Op(f, l) == [f |-> f, l |-> l]

\* Scenario C: nested locks.
NestedScript ==
  <<Op("acquire", LockSeq[1]), Op("acquire", LockSeq[2]),
    Op("release", LockSeq[2]), Op("release", LockSeq[1])>>

\* initialize, then immediately acquire and release.
RoundTripScript == <<Op("acquire", LastLock), Op("release", LastLock)>>

\* Scenario B: one iteration of the counter loop.
CounterBody ==
  <<Op("acquire", TickLock), Op("read", ""), Op("write", ""), Op("release", TickLock)>>

\* Scenario B on a machine with pending stores and early loads.
PublishBody ==
  <<Op("acquire", TickLock), Op("load", ""), Op("store", ""), Op("release", TickLock)>>

RECURSIVE Repeat(_, _)
Repeat(s, n) == IF n = 0 THEN <<>> ELSE s \o Repeat(s, n - 1)

Script(p) ==
  CASE p = "nested" -> NestedScript
    [] p = "roundtrip" -> RoundTripScript
    [] p = "counter" -> Repeat(CounterBody, Iter)
    [] p = "publish" -> Repeat(PublishBody, Iter)
    [] p = "publish1" -> PublishBody
    [] OTHER -> <<>>

\* The locks a program may use: "free1" and "loop1" leave the last lock alone.
ProgLocks(p) == IF p \in {"free", "loop", "proper"} THEN Locks ELSE Locks \ {LastLock}

\* Unscripted kernel code: any call, also the wrong ones.
FreeOps(c) ==
  {Op(f, l) : f \in {"release", "holding"}, l \in ProgLocks(prog[c])}
    \cup {Op("pop_off", "")}
    \cup (IF noff[c] < MaxNoff
          THEN {Op("acquire", l) : l \in ProgLocks(prog[c])} \cup {Op("push_off", "")}
          ELSE {})

\* Well-behaved kernel code: takes a lock, releases it, again and again.
LoopOps(c) ==
  IF cs[c] = {}
  THEN {Op("acquire", l) : l \in ProgLocks(prog[c])}
  ELSE {Op("release", l) : l \in cs[c]}

\* Correct kernel code: takes locks it does not hold, releases locks it holds
\* in any order, and pairs its own push_off and pop_off calls.
ProperOps(c) ==
  {Op("release", l) : l \in cs[c]}
    \cup (IF noff[c] > Cardinality(cs[c]) THEN {Op("pop_off", "")} ELSE {})
    \cup (IF noff[c] < MaxNoff
          THEN {Op("acquire", l) : l \in ProgLocks(prog[c]) \ cs[c]} \cup {Op("push_off", "")}
          ELSE {})

Scripted(p) == p \in {"nested", "roundtrip", "counter", "publish", "publish1"}

NextOps(c) ==
  CASE prog[c] \in {"free", "free1"} -> FreeOps(c)
    [] prog[c] \in {"loop", "loop1"} -> LoopOps(c)
    [] prog[c] = "proper" -> ProperOps(c)
    [] OTHER -> IF ip[c] <= Len(Script(prog[c])) THEN {Script(prog[c])[ip[c]]} ELSE {}

Done(c) == Idle(c) /\ ip[c] > Len(Script(prog[c]))

\* What a load of the shared counter by core c returns now: its own newest
\* pending store, or else memory.
Visible(c) == IF sb[c] # <<>> THEN sb[c][Len(sb[c])] ELSE counter

\* The kernel code of core c makes its next call.  "read" and "write" access
\* the counter in memory at once; "load" and "store" go through the early
\* loads and the pending stores of the core.
KCall(c) ==
  /\ Idle(c)
  /\ AllInited
  /\ \E op \in NextOps(c) :
       /\ ip' = [ip EXCEPT ![c] = IF Scripted(prog[c]) THEN @ + 1 ELSE @]
       /\ amb' = [amb EXCEPT ![c] =
                    IF op.f \in {"acquire", "push_off"} /\ noff[c] = 0 THEN intr[c] ELSE @]
       /\ stack' = [stack EXCEPT ![c] =
                      CASE op.f = "acquire" -> CallAcquire(op.l)
                        [] op.f = "release" -> CallRelease(op.l)
                        [] op.f = "holding" -> CallHolding(op.l)
                        [] op.f = "push_off" -> CallPushOff
                        [] op.f = "pop_off" -> CallPopOff
                        [] OTHER -> <<>>]
       /\ tmp' = [tmp EXCEPT ![c] =
                    CASE op.f = "read" -> counter
                      [] op.f = "load" -> IF early[c] # NoLoad THEN early[c] ELSE Visible(c)
                      [] OTHER -> @]
       /\ counter' = IF op.f = "write" THEN tmp[c] + 1 ELSE counter
       /\ sb' = [sb EXCEPT ![c] = IF op.f = "store" THEN Append(@, tmp[c] + 1) ELSE @]
       /\ early' = [early EXCEPT ![c] = IF op.f = "load" THEN NoLoad ELSE @]
       /\ pushes' = [pushes EXCEPT ![c] =
                       CASE op.f = "push_off" -> @ + 1
                         [] op.f = "pop_off" -> @ - 1
                         [] OTHER -> @]
  /\ UNCHANGED <<lockvars, cpuvars, panicked, cs, prog, bootvars>>

\* The memory system takes the oldest pending store of core c to memory.
Drain(c) ==
  /\ sb[c] # <<>>
  /\ counter' = Head(sb[c])
  /\ sb' = [sb EXCEPT ![c] = Tail(@)]
  /\ UNCHANGED <<lockvars, cpuvars, stack, panicked, cs, prog, ip, tmp, amb,
                 pushes, bootvars, early>>

\* Core c performs its next load ahead of time, while the call before the
\* load is still running or before the load is reached.
EarlyLoad(c) ==
  /\ Running(c)
  /\ early[c] = NoLoad
  /\ ip[c] <= Len(Script(prog[c]))
  /\ Script(prog[c])[ip[c]].f = "load"
  /\ early' = [early EXCEPT ![c] = Visible(c)]
  /\ UNCHANGED <<lockvars, cpuvars, stack, panicked, cs, drivervars, bootvars, sb>>

----------------------------------------------------------------------------
\* kernel/start.c: every hart enters start() in machine mode

\* A register is the set of the positions of its bits that are 1.
Bits(n) == 0..(n - 1)
MSTATUS_MPP_MASK == {11, 12}
MSTATUS_MPP_S == {11}
MSTATUS_MIE == {3}
MSTATUS_MPIE == {7}
SIE_SEIE == {9}
SIE_STIE == {5}
SIE_SSIE == {1}
MIE_MTIE == {7}
MIE_MEIE == {11}

\* r_mhartid(): harts are numbered from 0.
r_mhartid(c) == c - 1
Harts == {r_mhartid(c) : c \in Cores}

\* int interval = 1000000;
interval == 1000000
\* The address of hart id's comparator register in the CLINT.
CLINT == 33554432
CLINT_MTIMECMP(id) == CLINT + 16384 + 8 * id
\* &timer_scratch[id][0]
ScratchRow(id) == <<"timer_scratch", id>>

\* Largest value of the cycle counter in the model.
MaxTime == 1

kernelvars == <<lockvars, cpuvars, stack, panicked, cs, drivervars, memvars>>

\* A statement of hart c at place from that writes v to register r.
WriteReg(c, from, to, r, v) ==
  /\ bpc[c] = from
  /\ regs' = [regs EXCEPT ![c][r] = v]
  /\ bpc' = [bpc EXCEPT ![c] = to]
  /\ UNCHANGED <<tread, mtime, mtimecmp, timer_scratch, kernelvars>>

\* Variant of start_mpp that sets the supervisor bit without clearing the field.
start_mpp_no_clear(c) ==
  WriteReg(c, "mpp", "mepc", "mstatus", regs[c].mstatus \cup MSTATUS_MPP_S)

\* x = r_mstatus(); x &= ~MSTATUS_MPP_MASK; x |= MSTATUS_MPP_S; w_mstatus(x);
start_mpp(c) ==
  LET x == regs[c].mstatus
  IN  WriteReg(c, "mpp", "mepc", "mstatus", (x \ MSTATUS_MPP_MASK) \cup MSTATUS_MPP_S)

\* w_mepc((uint64)main);
start_mepc(c) == WriteReg(c, "mepc", "satp", "mepc", "main")

\* w_satp(0);
start_satp(c) == WriteReg(c, "satp", "medeleg", "satp", 0)

\* w_medeleg(0xffff);
start_medeleg(c) == WriteReg(c, "medeleg", "mideleg", "medeleg", Bits(16))

\* w_mideleg(0xffff);
start_mideleg(c) == WriteReg(c, "mideleg", "sie", "mideleg", Bits(16))

\* w_sie(r_sie() | SIE_SEIE | SIE_STIE | SIE_SSIE);
start_sie(c) ==
  WriteReg(c, "sie", "pmpaddr0", "sie",
           regs[c].sie \cup SIE_SEIE \cup SIE_STIE \cup SIE_SSIE)

\* w_pmpaddr0(0x3fffffffffffffull);
start_pmpaddr0(c) == WriteReg(c, "pmpaddr0", "pmpcfg0", "pmpaddr0", Bits(54))

\* w_pmpcfg0(0xf); then timerinit() is entered.
start_pmpcfg0(c) == WriteReg(c, "pmpcfg0", "rdtime", "pmpcfg0", Bits(4))

\* timerinit: int id = r_mhartid(); int interval = 1000000;
\* the load of *(uint64*)CLINT_MTIME.
timerinit_rdtime(c) ==
  /\ bpc[c] = "rdtime"
  /\ tread' = [tread EXCEPT ![c] = mtime]
  /\ bpc' = [bpc EXCEPT ![c] = "cmp"]
  /\ UNCHANGED <<regs, mtime, mtimecmp, timer_scratch, kernelvars>>

\* Variant of timerinit_cmp that programs the comparator of hart 0.
timerinit_cmp_hart0(c) ==
  /\ bpc[c] = "cmp"
  /\ mtimecmp' = [mtimecmp EXCEPT ![0] = tread[c] + interval]
  /\ bpc' = [bpc EXCEPT ![c] = "scratch3"]
  /\ UNCHANGED <<regs, tread, mtime, timer_scratch, kernelvars>>

\* timerinit: the store *(uint64*)CLINT_MTIMECMP(id) = ... + interval.
timerinit_cmp(c) ==
  /\ bpc[c] = "cmp"
  /\ mtimecmp' = [mtimecmp EXCEPT ![r_mhartid(c)] = tread[c] + interval]
  /\ bpc' = [bpc EXCEPT ![c] = "scratch3"]
  /\ UNCHANGED <<regs, tread, mtime, timer_scratch, kernelvars>>

\* timerinit: scratch = &timer_scratch[id][0]; scratch[3] = CLINT_MTIMECMP(id);
timerinit_scratch3(c) ==
  /\ bpc[c] = "scratch3"
  /\ timer_scratch' =
       [timer_scratch EXCEPT ![r_mhartid(c)][3] = CLINT_MTIMECMP(r_mhartid(c))]
  /\ bpc' = [bpc EXCEPT ![c] = "scratch4"]
  /\ UNCHANGED <<regs, tread, mtime, mtimecmp, kernelvars>>

\* timerinit: scratch[4] = interval;
timerinit_scratch4(c) ==
  /\ bpc[c] = "scratch4"
  /\ timer_scratch' = [timer_scratch EXCEPT ![r_mhartid(c)][4] = interval]
  /\ bpc' = [bpc EXCEPT ![c] = "mscratch"]
  /\ UNCHANGED <<regs, tread, mtime, mtimecmp, kernelvars>>

\* timerinit: w_mscratch((uint64)scratch);
timerinit_mscratch(c) ==
  WriteReg(c, "mscratch", "mtvec", "mscratch", ScratchRow(r_mhartid(c)))

\* Variant of timerinit_mtvec that leaves mtvec as it is.
timerinit_mtvec_not_set(c) == WriteReg(c, "mtvec", "mie", "mtvec", regs[c].mtvec)

\* timerinit: w_mtvec((uint64)timervec);
timerinit_mtvec(c) == WriteReg(c, "mtvec", "mie", "mtvec", "timervec")

\* timerinit: w_mstatus(r_mstatus() | MSTATUS_MIE);
timerinit_mie(c) ==
  WriteReg(c, "mie", "mtie", "mstatus", regs[c].mstatus \cup MSTATUS_MIE)

\* timerinit: w_mie(r_mie() | MIE_MTIE); then timerinit returns to start.
timerinit_mtie(c) == WriteReg(c, "mtie", "tp", "mie", regs[c].mie \cup MIE_MTIE)

\* int id = r_mhartid(); w_tp(id);
start_tp(c) == WriteReg(c, "tp", "mret", "tp", r_mhartid(c))

\* The privilege mode the MPP field of mstatus names.
PrevPriv(ms) ==
  CASE ms \cap MSTATUS_MPP_MASK = {} -> "U"
    [] ms \cap MSTATUS_MPP_MASK = MSTATUS_MPP_S -> "S"
    [] OTHER -> "M"

\* asm volatile("mret"): the hart goes to the mode in MPP and the address in
\* mepc; MIE takes the value of MPIE, MPIE is set and MPP is cleared.
start_mret(c) ==
  /\ bpc[c] = "mret"
  /\ LET ms == regs[c].mstatus
     IN  regs' = [regs EXCEPT
                    ![c].priv = PrevPriv(ms),
                    ![c].mstatus =
                      ((ms \ (MSTATUS_MPP_MASK \cup MSTATUS_MIE)) \cup MSTATUS_MPIE)
                        \cup (IF MSTATUS_MPIE \subseteq ms THEN MSTATUS_MIE ELSE {})]
  /\ bpc' = [bpc EXCEPT ![c] = regs[c].mepc]
  /\ UNCHANGED <<tread, mtime, mtimecmp, timer_scratch, kernelvars>>

\* The cycle counter of the machine advances on its own.
Tick ==
  /\ mtime < MaxTime
  /\ mtime' = mtime + 1
  /\ UNCHANGED <<regs, bpc, tread, mtimecmp, timer_scratch, kernelvars>>

\* The statements of start() and timerinit() in program order, then main.
BootPlaces ==
  <<"mpp", "mepc", "satp", "medeleg", "mideleg", "sie", "pmpaddr0", "pmpcfg0",
    "rdtime", "cmp", "scratch3", "scratch4", "mscratch", "mtvec", "mie", "mtie",
    "tp", "mret", "main">>
PlaceOf(pc) == CHOOSE i \in 1..Len(BootPlaces) : BootPlaces[i] = pc
\* Hart c has executed the statement at place pc.
Past(c, pc) == PlaceOf(bpc[c]) > PlaceOf(pc)

\* The registers of a hart at reset: mstatus.MIE is clear, the rest holds
\* whatever the machine left there.
ResetRegs ==
  { [priv |-> "M", mstatus |-> ms, mepc |-> "?", satp |-> sp, medeleg |-> {},
     mideleg |-> {}, sie |-> ie[1], pmpaddr0 |-> {}, pmpcfg0 |-> {}, mscratch |-> <<>>,
     mtvec |-> "?", mie |-> ie[2], tp |-> -1] :
      ms \in {{}, MSTATUS_MPP_MASK \cup MSTATUS_MPIE},
      sp \in {1},
      ie \in {<<{}, {}>>, <<{0} \cup SIE_SSIE, MIE_MEIE \cup MIE_MTIE>>} }

\* All harts leave reset in the same state; statics are zero; the counter has
\* run for some time.
Reset ==
  /\ \E r \in ResetRegs : regs = [c \in Cores |-> r]
  /\ bpc = [c \in Cores |-> "mpp"]
  /\ tread = [c \in Cores |-> 0]
  /\ mtime = 0
  /\ mtimecmp = [id \in Harts |-> 0]
  /\ timer_scratch = [id \in Harts |-> [i \in 0..4 |-> 0]]

\* The registers of hart c when the kernel runs: start() has run from the
\* all-clear reset state.
BootedRegs(c) ==
  [priv |-> "S", mstatus |-> MSTATUS_MPIE, mepc |-> "main", satp |-> 0,
   medeleg |-> Bits(16), mideleg |-> Bits(16),
   sie |-> SIE_SEIE \cup SIE_STIE \cup SIE_SSIE, pmpaddr0 |-> Bits(54),
   pmpcfg0 |-> Bits(4), mscratch |-> ScratchRow(r_mhartid(c)), mtvec |-> "timervec",
   mie |-> MIE_MTIE, tp |-> r_mhartid(c)]

\* The machine when the kernel code of the lock specifications runs.
Booted ==
  /\ regs = [c \in Cores |-> BootedRegs(c)]
  /\ bpc = [c \in Cores |-> "main"]
  /\ tread = [c \in Cores |-> 0]
  /\ mtime = 0
  /\ mtimecmp = [id \in Harts |-> interval]
  /\ timer_scratch =
       [id \in Harts |-> [i \in 0..4 |->
          IF i = 3 THEN CLINT_MTIMECMP(id) ELSE IF i = 4 THEN interval ELSE 0]]

----------------------------------------------------------------------------
\* Specifications

\* Before initlock a lock's words hold anything; a core's interrupts may be
\* enabled or disabled when it starts.
InitLocks(p, ie) ==
  /\ locked \in [Locks -> {0, 1}]
  /\ lkcpu \in [Locks -> {NoCpu} \cup Cores]
  /\ lkname = [l \in Locks |-> "?"]
  /\ inited = [l \in Locks |-> FALSE]
  /\ noff = [c \in Cores |-> 0]
  /\ intena = [c \in Cores |-> FALSE]
  /\ intr \in ie
  /\ stack = [c \in Cores |-> <<>>]
  /\ panicked = [c \in Cores |-> ""]
  /\ cs = [c \in Cores |-> {}]
  /\ amb = intr
  /\ prog = p
  /\ ip = [c \in Cores |-> 1]
  /\ counter = 0
  /\ tmp = [c \in Cores |-> 0]
  /\ sb = [c \in Cores |-> <<>>]
  /\ early = [c \in Cores |-> NoLoad]
  /\ pushes = [c \in Cores |-> 0]

\* The kernel code runs on a machine that start() has set up.
InitWith(p, ie) == InitLocks(p, ie) /\ Booted

\* One core runs unscripted kernel code on every lock, wrong calls included;
\* the others take and release the handler's lock again and again.
Init == InitWith([c \in Cores |-> IF c = BootCpu THEN "free" ELSE "loop1"], [Cores -> BOOLEAN])

Step(c) ==
  \/ \E l \in Locks : initlock(c, l)
  \/ push_off_get(c)
  \/ push_off_off(c)
  \/ pop_off(c)
  \/ holding_locked(c)
  \/ holding_cpu(c)
  \/ holding_ret(c)
  \/ acquire_swap(c)
  \/ acquire_setcpu(c)
  \/ release_clrcpu(c)
  \/ release_clear(c)
  \/ KCall(c)

Next == \E c \in Cores : Step(c)

Spec == Init /\ [][Next]_vars

\* With the timer interrupt: every core starts with interrupts enabled; one
\* core nests locks and push_off calls correctly, the others loop on a lock.
InitTimer ==
  InitWith([c \in Cores |-> IF c = BootCpu THEN "proper" ELSE "loop1"], {[c \in Cores |-> TRUE]})

NextTimer == \E c \in Cores : Step(c) \/ TimerInterrupt(c) \/ sret(c)

SpecTimer == InitTimer /\ [][NextTimer]_vars

\* Scenario B: every core runs the counter loop, interrupts enabled at first.
InitCounter == InitWith([c \in Cores |-> "counter"], {[c \in Cores |-> TRUE]})

SpecCounter == InitCounter /\ [][Next]_vars

\* Scenario C: one core takes the two locks nested, the others contend.
InitNested ==
  InitWith([c \in Cores |-> IF c = BootCpu THEN "nested" ELSE "loop"], [Cores -> BOOLEAN])

SpecNested == InitNested /\ [][Next]_vars

\* The boot hart initialises the last lock, then acquires and releases it;
\* the other cores use the other locks.
InitRoundTrip ==
  InitWith([c \in Cores |-> IF c = BootCpu THEN "roundtrip" ELSE "loop1"], [Cores -> BOOLEAN])

SpecRoundTrip == InitRoundTrip /\ [][Next]_vars

\* Scenario B with pending stores and early loads: one core runs the counter
\* loop, the others one iteration of it; the memory system drains stores and
\* loads early at any time.
InitPublish ==
  InitWith([c \in Cores |-> IF c = BootCpu THEN "publish" ELSE "publish1"],
           {[c \in Cores |-> TRUE]})

NextPublish == \E c \in Cores : Step(c) \/ Drain(c) \/ EarlyLoad(c)

SpecPublish == InitPublish /\ [][NextPublish]_vars


\* Progress: every core takes and releases the handler's lock again and
\* again; a core that can take a step eventually takes one.
InitFair == InitWith([c \in Cores |-> "loop1"], {[c \in Cores |-> TRUE]})

SpecFair == InitFair /\ [][Next]_vars /\ \A c \in Cores : WF_vars(Step(c))

\* The core the other cores starve.
Victim == NCPU

\* A step of core c in which the victim does not win the exchange.
StarveStep(c) ==
  /\ Step(c)
  /\ ~(At(Victim, "acquire", "swap") /\ stack'[Victim] # stack[Victim])

NextStarve == \E c \in Cores : StarveStep(c)

\* The executions of SpecFair's program in which the victim loses every
\* exchange; every other step is taken when it stays possible.
SpecStarve == InitFair /\ [][NextStarve]_vars /\ \A c \in Cores : WF_vars(StarveStep(c))
\* Boot: every hart runs start() from reset while the cycle counter advances;
\* no kernel code runs yet.
InitBoot ==
  /\ InitLocks([c \in Cores |-> "free"], {[c \in Cores |-> FALSE]})
  /\ locked = [l \in Locks |-> 0]
  /\ lkcpu = [l \in Locks |-> NoCpu]
  /\ Reset

BootStep(c) ==
  \/ start_mpp(c)
  \/ start_mepc(c)
  \/ start_satp(c)
  \/ start_medeleg(c)
  \/ start_mideleg(c)
  \/ start_sie(c)
  \/ start_pmpaddr0(c)
  \/ start_pmpcfg0(c)
  \/ timerinit_rdtime(c)
  \/ timerinit_cmp(c)
  \/ timerinit_scratch3(c)
  \/ timerinit_scratch4(c)
  \/ timerinit_mscratch(c)
  \/ timerinit_mtvec(c)
  \/ timerinit_mie(c)
  \/ timerinit_mtie(c)
  \/ start_tp(c)
  \/ start_mret(c)

NextBoot == (\E c \in Cores : BootStep(c)) \/ Tick

SpecBoot == InitBoot /\ [][NextBoot]_vars

----------------------------------------------------------------------------
\* Properties

\* Core c changes its control state in this step.
CoreStep(c) == stack'[c] # stack[c] \/ panicked'[c] # panicked[c]

\* Core c has a frame of function fn on lock l at one of the places pcs.
HasFrame(c, fn, pcs, l) ==
  \E i \in 1..Len(stack[c]) :
    stack[c][i].fn = fn /\ stack[c][i].pc \in pcs /\ stack[c][i].lk = l

\* The lock word of l is set on behalf of core c: c won the exchange and has
\* not yet cleared the word.
Owns(c, l) == l \in cs[c] \/ HasFrame(c, "acquire", {"setcpu"}, l)

\* C1: mutual exclusion. For every lock, at most one core is inside the
\* critical section: has returned from acquire and has not yet made the
\* lock-clearing write of release.
C1_MutualExclusion ==
  \A l \in Locks : Cardinality({c \in Cores : l \in cs[c]}) <= 1

\* One core is inside the critical section while another one spins on the
\* same lock.
C1_Witness ==
  \E c, d \in Cores :
    /\ c # d
    /\ TickLock \in cs[c]
    /\ At(d, "acquire", "swap")
    /\ Top(d).lk = TickLock

\* C2: while a core holds a spinlock, and from its first push_off to the
\* matching last pop_off, its interrupts are disabled; and no core spins in
\* the timer interrupt handler on a lock whose word is set on its own behalf.
C2_NoSelfDeadlock ==
  \A c \in Cores :
    /\ (noff[c] > 0 \/ \E l \in Locks : Owns(c, l)) => ~intr[c]
    /\ ~(InTrap(c) /\ At(c, "acquire", "swap") /\ Owns(c, Top(c).lk))

\* A core whose interrupts were enabled holds the handler's lock inside a
\* nested push_off, while the handler of another core spins on that lock.
C2_Witness ==
  \E c, d \in Cores :
    /\ c # d
    /\ TickLock \in cs[c]
    /\ intena[c]
    /\ noff[c] >= 2
    /\ InTrap(d)
    /\ At(d, "acquire", "swap")

\* C3: when the kernel code of a core has unwound all its push_off calls
\* (direct ones and those of acquire, in any order of release), the
\* interrupt-enable bit is what it was before the outermost push_off.
C3_BalancedRestores ==
  \A c \in Cores : (Idle(c) /\ noff[c] = 0) => intr[c] = amb[c]

\* The core that makes arbitrary calls has unwound a sequence that began
\* with interrupts enabled, and they are enabled again.
C3_Witness ==
  \E c \in Cores :
    /\ prog[c] = "free"
    /\ Idle(c)
    /\ noff[c] = 0
    /\ intena[c]
    /\ intr[c]

\* C4: the value holding(l) is about to return on core c is true iff the
\* lock word of l is set and its owner is c; it is true when c is inside
\* the critical section of l, false when l is free or another core is.
C4_Holding ==
  \A c \in Cores :
    At(c, "holding", "ret") =>
      LET l == Top(c).lk
          r == Top(c).v
      IN  /\ r <=> (locked[l] # 0 /\ lkcpu[l] = c)
          /\ l \in cs[c] => r
          /\ (locked[l] = 0 \/ \E d \in Cores \ {c} : l \in cs[d]) => ~r

\* The kernel code calls holding on a lock it holds and gets true, while
\* holding on another core, for the same lock, is about to return false.
C4_Witness ==
  \E c, d \in Cores :
    /\ c # d
    /\ stack[c] = <<F("holding", "ret", TickLock, TRUE)>>
    /\ TickLock \in cs[c]
    /\ At(d, "holding", "ret")
    /\ Top(d).lk = TickLock
    /\ ~Top(d).v

\* Core c is in acquire(l) although it is inside the critical section of l.
ReentrantAcquire(c, l) ==
  l \in cs[c] /\ HasFrame(c, "acquire", {"push", "hold", "swap", "setcpu"}, l)

\* C5: acquire(l) on a core that already holds l never gets to the exchange
\* and never returns; the holding check sends it to panic("acquire"); the
\* lock word and the owner of l stay as they are, held by that core.
C5_ReentrantAcquirePanics ==
  /\ [](\A c \in Cores : \A l \in Locks :
          ReentrantAcquire(c, l) =>
            /\ HasFrame(c, "acquire", {"push", "hold"}, l)
            /\ locked[l] # 0
            /\ lkcpu[l] = c)
  /\ [][\A c \in Cores : \A l \in Locks :
          ReentrantAcquire(c, l) =>
            /\ ReentrantAcquire(c, l)'
            /\ locked'[l] = locked[l]
            /\ lkcpu'[l] = lkcpu[l]
            /\ (At(c, "holding", "ret") /\ CoreStep(c)) => panicked'[c] = "acquire"]_vars

\* A core stopped in panic("acquire") on a lock it holds.
C5_Witness ==
  \E c \in Cores :
    /\ panicked[c] = "acquire"
    /\ Top(c).fn = "acquire"
    /\ Top(c).lk \in cs[c]
    /\ lkcpu[Top(c).lk] = c

\* Core c is in release(l), before the outcome of its holding check,
\* although it is not inside the critical section of l.
BadRelease(c, l) == l \notin cs[c] /\ HasFrame(c, "release", {"hold"}, l)

\* C6: release(l) on a core that does not hold l writes nothing: no step of
\* that core changes a lock word, an owner or its own nesting counter, the
\* core never gets past the check, and the check sends it to
\* panic("release").
C6_BadReleasePanics ==
  [][\A c \in Cores : \A l \in Locks :
       (BadRelease(c, l) /\ CoreStep(c)) =>
         /\ BadRelease(c, l)'
         /\ locked' = locked
         /\ lkcpu' = lkcpu
         /\ noff'[c] = noff[c]
         /\ At(c, "holding", "ret") => panicked'[c] = "release"]_vars

\* A core stopped in panic("release") on a lock that another core holds,
\* and still holds.
C6_Witness ==
  \E c, d \in Cores :
    /\ c # d
    /\ panicked[c] = "release"
    /\ Top(c).fn = "release"
    /\ Top(c).lk \in cs[d]
    /\ lkcpu[Top(c).lk] = d
    /\ locked[Top(c).lk] # 0

\* C7: pop_off with interrupts enabled panics, pop_off with a counter of 0
\* panics, and neither changes the counter, which is never negative;
\* otherwise pop_off lowers the counter by one and leaves interrupts
\* enabled exactly when the counter reached 0 and intena was set.
C7_PopOff ==
  /\ [](\A c \in Cores : noff[c] >= 0)
  /\ [][\A c \in Cores :
          (At(c, "pop_off", "chk") /\ CoreStep(c)) =>
            IF intr[c]
            THEN panicked'[c] = "pop_off - interruptible" /\ noff'[c] = noff[c]
            ELSE IF noff[c] = 0
            THEN panicked'[c] = "pop_off" /\ noff'[c] = noff[c]
            ELSE /\ panicked'[c] = ""
                 /\ noff'[c] = noff[c] - 1
                 /\ intr'[c] <=> (noff'[c] = 0 /\ intena[c])]_vars

\* A core stopped in panic("pop_off") with its counter still 0.
C7_Witness ==
  \E c \in Cores :
    /\ panicked[c] = "pop_off"
    /\ noff[c] = 0
    /\ ~intr[c]

\* The increments core c has completed: the writes its script has made.
WritesDone(c) ==
  Cardinality({i \in 1..(ip[c] - 1) : Script(prog[c])[i].f = "write"})

RECURSIVE SumWrites(_)
SumWrites(S) ==
  IF S = {} THEN 0 ELSE LET c == CHOOSE x \in S : TRUE IN WritesDone(c) + SumWrites(S \ {c})

\* C8: no lost updates. The shared counter always equals the number of
\* increments completed by all cores, so when every core has run its Iter
\* iterations the counter is NCPU * Iter (two cores: 2 * Iter).
C8_NoLostUpdates ==
  /\ counter = SumWrites(Cores)
  /\ (\A c \in Cores : Done(c)) => counter = NCPU * Iter

\* Every core has finished its loop.
C8_Witness ==
  /\ \A c \in Cores : prog[c] = "counter" /\ Done(c)
  /\ counter = NCPU * Iter

\* C9 as stated: the counter reads 2 between the two acquires (after
\* acquire(L1) has returned, before acquire(L2) is called) and 0 after both
\* releases.
C9_AsStated ==
  \A c \in Cores :
    (prog[c] = "nested" /\ Idle(c)) =>
      /\ ip[c] = 2 => noff[c] = 2
      /\ ip[c] = 5 => noff[c] = 0

\* C9, amended: in the nested scenario the counter reads 1 between the two
\* acquires, 2 after the second acquire and before the first release, 1
\* between the two releases, and 0 before the first acquire and after both
\* releases.
C9_NestedCounter ==
  \A c \in Cores :
    (prog[c] = "nested" /\ Idle(c)) =>
      /\ ip[c] \in {1, 5} => noff[c] = 0
      /\ ip[c] \in {2, 4} => noff[c] = 1
      /\ ip[c] = 3 => noff[c] = 2

\* The core of the nested scenario holds both locks, between acquire(L2)
\* and release(L2).
C9_Witness ==
  \E c \in Cores :
    /\ prog[c] = "nested"
    /\ Idle(c)
    /\ ip[c] = 3
    /\ cs[c] = Locks
    /\ noff[c] = 2

\* The record of lock l is as initlock leaves it.
AsInitialised(l) == locked[l] = 0 /\ lkcpu[l] = NoCpu /\ lkname[l] = l

\* C10: round trip. Right after initlock(l), and again after the acquire(l)
\* and release(l) that follow it, the record of l is the same: locked = 0,
\* no owner, the name as given; after the release the core's nesting
\* counter and interrupt-enable bit are what they were before the acquire.
C10_RoundTrip ==
  \A c \in Cores :
    (prog[c] = "roundtrip" /\ Idle(c) /\ inited[LastLock]) =>
      /\ ip[c] \in {1, 3} => AsInitialised(LastLock)
      /\ ip[c] \in {1, 3} => (noff[c] = 0 /\ intr[c] = amb[c])

\* The round trip is over.
C10_Witness ==
  \E c \in Cores :
    /\ prog[c] = "roundtrip"
    /\ Done(c)
    /\ AsInitialised(LastLock)

----------------------------------------------------------------------------
\* Properties of start() and timerinit()

\* C11: timer setup. Once timerinit on hart id has stored to its comparator,
\* the comparator holds the cycle count it read plus the interval; once it has
\* filled its scratch row, entry 3 holds the address of that comparator and
\* entry 4 the interval. Until a hart makes these stores its comparator and
\* its row keep their reset values, whatever the other harts have done, and
\* the other entries of the row are never written: each hart's result is the
\* one it gets running alone.
C11_TimerSetup ==
  /\ \A c \in Cores :
       LET id == r_mhartid(c)
       IN  /\ tread[c] <= mtime
           /\ mtimecmp[id] = IF Past(c, "cmp") THEN tread[c] + interval ELSE 0
           /\ timer_scratch[id][3] =
                IF Past(c, "scratch3") THEN CLINT_MTIMECMP(id) ELSE 0
           /\ timer_scratch[id][4] = IF Past(c, "scratch4") THEN interval ELSE 0
           /\ \A i \in 0..2 : timer_scratch[id][i] = 0
  /\ \A c, d \in Cores :
       c # d => CLINT_MTIMECMP(r_mhartid(c)) # CLINT_MTIMECMP(r_mhartid(d))

\* Two harts have finished timerinit and read different cycle counts: the
\* counter advanced between their loads.
C11_Witness ==
  \E c, d \in Cores :
    /\ Past(c, "mtie") /\ Past(d, "mtie")
    /\ mtimecmp[r_mhartid(c)] = interval
    /\ mtimecmp[r_mhartid(d)] = MaxTime + interval

\* The bits of mstatus that start() and timerinit() write.
StartMstatusBits == MSTATUS_MPP_MASK \cup MSTATUS_MIE
\* The bits of sie that start() sets.
StartSieBits == SIE_SEIE \cup SIE_STIE \cup SIE_SSIE

\* C17: privilege transition. When hart c is at the mret of start(): the
\* previous-privilege field of mstatus is supervisor and MIE is set, mepc is
\* main, satp is 0, medeleg and mideleg are 0xffff, the three supervisor
\* interrupt enables are set in sie, pmpaddr0 is 0x3fffffffffffff and pmpcfg0
\* is 0xf, and tp is the hart id. On the way there no step changes a bit of
\* mstatus other than MPP and MIE, and no step clears a bit of sie or changes
\* a bit of sie other than the three enables.
C17_PrivilegeTransition ==
  /\ [](\A c \in Cores :
          bpc[c] = "mret" =>
            /\ PrevPriv(regs[c].mstatus) = "S"
            /\ regs[c].mstatus \cap StartMstatusBits = MSTATUS_MPP_S \cup MSTATUS_MIE
            /\ regs[c].priv = "M"
            /\ regs[c].mepc = "main"
            /\ regs[c].satp = 0
            /\ regs[c].medeleg = Bits(16)
            /\ regs[c].mideleg = Bits(16)
            /\ StartSieBits \subseteq regs[c].sie
            /\ regs[c].pmpaddr0 = Bits(54)
            /\ regs[c].pmpcfg0 = Bits(4)
            /\ regs[c].tp = r_mhartid(c))
  /\ [][\A c \in Cores :
          bpc[c] # "mret" =>
            /\ regs'[c].mstatus \ StartMstatusBits = regs[c].mstatus \ StartMstatusBits
            /\ regs[c].sie \subseteq regs'[c].sie
            /\ regs'[c].sie \ StartSieBits = regs[c].sie \ StartSieBits]_vars

\* A hart that left reset with MPP naming machine mode, MPIE set and a
\* further bit set in sie is at mret, and these other bits are still set.
C17_Witness ==
  \E c \in Cores :
    /\ bpc[c] = "mret"
    /\ MSTATUS_MPIE \subseteq regs[c].mstatus
    /\ 0 \in regs[c].sie

\* The timer setup of hart c is complete: comparator programmed, scratch row
\* filled, mscratch pointing to the row, mtvec set to timervec.
TimerSetupDone(c) ==
  LET id == r_mhartid(c)
  IN  /\ mtimecmp[id] >= interval
      /\ timer_scratch[id][3] = CLINT_MTIMECMP(id)
      /\ timer_scratch[id][4] = interval
      /\ regs[c].mscratch = ScratchRow(id)
      /\ regs[c].mtvec = "timervec"

\* Hart c can take a machine timer interrupt: MTIE is set, and the hart runs
\* below machine mode or with MIE set.
TimerInterruptEnabled(c) ==
  /\ MIE_MTIE \subseteq regs[c].mie
  /\ regs[c].priv # "M" \/ MSTATUS_MIE \subseteq regs[c].mstatus

\* C20: boot ordering. On every hart: MIE is set in mstatus only when the
\* timer setup of the hart is complete; a machine timer interrupt can be
\* taken only when it is complete; the steps that set MIE and MTIE are taken
\* with the setup complete; and at mret (and after it) timerinit has
\* completed: the setup is complete and MTIE is set.
C20_BootOrdering ==
  /\ [](\A c \in Cores :
          /\ regs[c].priv = "M" /\ MSTATUS_MIE \subseteq regs[c].mstatus => TimerSetupDone(c)
          /\ TimerInterruptEnabled(c) => TimerSetupDone(c)
          /\ bpc[c] \in {"mret", "main"} =>
               TimerSetupDone(c) /\ MIE_MTIE \subseteq regs[c].mie)
  /\ [][\A c \in Cores :
          \/ ~(MSTATUS_MIE \subseteq regs[c].mstatus) /\ MSTATUS_MIE \subseteq regs'[c].mstatus
          \/ ~(MIE_MTIE \subseteq regs[c].mie) /\ MIE_MTIE \subseteq regs'[c].mie
          => TimerSetupDone(c)]_vars

\* A hart has enabled machine-mode interrupts and the machine timer
\* interrupt and is still in start(), while another hart has yet to program
\* its comparator.
C20_Witness ==
  \E c, d \in Cores :
    /\ bpc[c] = "tp"
    /\ TimerInterruptEnabled(c)
    /\ regs[c].priv = "M"
    /\ bpc[d] = "cmp"

----------------------------------------------------------------------------
\* Properties of the lock record

\* C12 as stated: for every initialised lock, locked == true implies that the
\* owner names a core and that this core is inside the critical section.
C12_AsStated ==
  \A l \in Locks :
    inited[l] /\ locked[l] # 0 => lkcpu[l] \in Cores /\ l \in cs[lkcpu[l]]

\* C12: lock record invariant. For every initialised lock: when the owner
\* names a core, the lock word is set and that core is inside the critical
\* section; when the lock word is set, exactly one core has won the exchange
\* and not yet cleared the word, and the owner is that core or none (none
\* between the winning exchange and lk->cpu = mycpu() in acquire, and between
\* lk->cpu = 0 and the clearing of the word in release).
C12_LockRecord ==
  \A l \in Locks :
    inited[l] =>
      /\ lkcpu[l] # NoCpu => locked[l] # 0 /\ l \in cs[lkcpu[l]]
      /\ locked[l] # 0 =>
           \E c \in Cores :
             /\ Owns(c, l)
             /\ lkcpu[l] \in {c, NoCpu}
             /\ \A d \in Cores : Owns(d, l) => d = c

\* A core other than the first is in release between lk->cpu = 0 and the
\* clearing of the lock word: the word is set and the lock has no owner.
C12_Witness ==
  \E c \in Cores \ {BootCpu} : \E l \in Locks :
    /\ inited[l] /\ locked[l] # 0 /\ lkcpu[l] = NoCpu
    /\ HasFrame(c, "release", {"clear"}, l)

\* Core c is in the exchange loop of acquire on lock l.
Attempting(c, l) == HasFrame(c, "acquire", {"swap"}, l)

\* C13: the nesting count brackets the lock word. Whenever a core is in the
\* exchange loop of acquire or has a lock word set on its behalf, its nesting
\* counter is at least 1 and its interrupts are disabled; a step that lowers
\* the counter of a core inside release is taken with the lock word of that
\* release already cleared.
C13_CountBracketsLockWord ==
  /\ [](\A c \in Cores : \A l \in Locks :
          Attempting(c, l) \/ Owns(c, l) => noff[c] >= 1 /\ ~intr[c])
  /\ [][\A c \in Cores : \A l \in Locks :
          noff'[c] < noff[c] /\ HasFrame(c, "release", {"hold", "clrcpu", "clear", "pop"}, l)
            => HasFrame(c, "release", {"pop"}, l) /\ l \notin cs[c]]_vars

\* A core whose interrupts were enabled spins in acquire on a lock whose
\* word is set on behalf of another core.
C13_Witness ==
  \E c, d \in Cores : \E l \in Locks :
    /\ c # d
    /\ At(c, "acquire", "swap") /\ Top(c).lk = l
    /\ Owns(d, l)
    /\ amb[c] /\ ~InTrap(c)
    /\ noff[c] = 1

\* C18: nesting counter accounting. Whenever core c is outside acquire,
\* release, push_off and pop_off (and outside the interrupt handler), its
\* nesting counter is the number of locks it holds plus the number of its
\* direct push_off calls not yet matched by a pop_off; it is 0 exactly when
\* it holds no lock and has no push_off outstanding.
C18_CounterAccounting ==
  \A c \in Cores :
    Idle(c) =>
      /\ pushes[c] >= 0
      /\ noff[c] = Cardinality(cs[c]) + pushes[c]
      /\ noff[c] = 0 <=> cs[c] = {} /\ pushes[c] = 0

\* A core holds a lock under one outstanding push_off of its own.
C18_Witness ==
  \E c \in Cores :
    /\ Idle(c)
    /\ Cardinality(cs[c]) = 1
    /\ pushes[c] = 1
    /\ noff[c] = 2

----------------------------------------------------------------------------
\* Properties of the fences

\* The stores to the counter the script of core c has issued.
StoresDone(c) ==
  Cardinality({i \in 1..(ip[c] - 1) : Script(prog[c])[i].f = "store"})

RECURSIVE SumStores(_)
SumStores(S) ==
  IF S = {} THEN 0 ELSE LET c == CHOOSE x \in S : TRUE IN StoresDone(c) + SumStores(S \ {c})

\* Core c has made the load of its critical section and not yet the store.
Loaded(c) ==
  /\ Idle(c)
  /\ ip[c] <= Len(Script(prog[c]))
  /\ Script(prog[c])[ip[c]].f = "store"

\* C14: release publishes the critical section. On a machine where stores
\* wait in a per-core buffer and loads may be made early: whenever the lock
\* word is clear, or set on behalf of another core, no store of a core is
\* still pending, so memory holds every store of every earlier critical
\* section; a core inside its critical section holds no value loaded before
\* it won the exchange other than the current one; hence the value a critical
\* section loads is the number of stores of all critical sections before it,
\* and when all cores are done the counter is the number of iterations run.
C14_ReleasePublishes ==
  /\ \A c \in Cores : sb[c] # <<>> => TickLock \in cs[c] /\ locked[TickLock] # 0
  /\ locked[TickLock] = 0 => counter = SumStores(Cores)
  /\ \A c \in Cores : TickLock \in cs[c] /\ early[c] # NoLoad => early[c] = Visible(c)
  /\ \A c \in Cores : Loaded(c) => tmp[c] = SumStores(Cores)
  /\ (\A c \in Cores : Done(c)) => counter = Iter + NCPU - 1

\* Core c loaded in its first critical section the store of core d, and its
\* own store has reached memory; d spins in its next acquire with a value it
\* loaded early, which is stale by now and which the fence will discard.
C14_Witness ==
  \E c, d \in Cores :
    /\ c # d
    /\ prog[d] = "publish"
    /\ StoresDone(c) = 1 /\ tmp[c] = 1 /\ sb[c] = <<>> /\ counter = 2
    /\ At(d, "acquire", "swap")
    /\ early[d] = 1

----------------------------------------------------------------------------
\* Properties of the saved interrupt state

\* C15: intena of a core changes only in the step of push_off that takes the
\* nesting counter of that core from 0 to 1, and that step stores the
\* interrupt state push_off read on entry; every other step (push_off at a
\* counter above 0, pop_off, the steps of acquire, release and holding, the
\* interrupt and its return, the steps of other cores) leaves it unchanged.
C15_IntenaFrame ==
  [][\A c \in Cores :
       /\ intena'[c] # intena[c] =>
            At(c, "push_off", "off") /\ noff[c] = 0 /\ noff'[c] = 1
       /\ noff[c] = 0 /\ noff'[c] = 1 =>
            At(c, "push_off", "off") /\ intena'[c] = Top(c).v]_vars

\* A core whose outermost push_off saved enabled interrupts is in pop_off at
\* nesting depth 2: a nested push_off has run and left intena alone.
C15_Witness ==
  \E c \in Cores :
    /\ At(c, "pop_off", "chk")
    /\ noff[c] = 2
    /\ intena[c]
    /\ ~InTrap(c)

----------------------------------------------------------------------------
\* Progress

\* Core c wins the exchange on lock l in this state.
Wins(c, l) == HasFrame(c, "acquire", {"setcpu"}, l)

\* A core that is in the exchange loop of acquire eventually leaves it.
EventuallyReturns ==
  \A c \in Cores : At(c, "acquire", "swap") ~> ~At(c, "acquire", "swap")

\* C16: no bounded wait. The executions in which the victim loses every
\* exchange are executions of the program (each step is a step of Next) in
\* which every core, the victim included, is treated with weak fairness: the
\* victim's winning exchange is never possible forever, because the other
\* cores take the lock again and again. In them the victim reaches the
\* exchange loop of acquire and stays there forever.
C16_NoBoundedWait ==
  /\ [][Next]_vars
  /\ \A c \in Cores : WF_vars(Step(c))
  /\ []<>(\E c \in Cores \ {Victim} : Wins(c, TickLock))
  /\ <>[]At(Victim, "acquire", "swap")

\* The victim is in the exchange loop with the lock word clear, and another
\* core is in the loop with it: the other core may win.
C16_Witness ==
  \E d \in Cores \ {Victim} :
    /\ At(Victim, "acquire", "swap")
    /\ At(d, "acquire", "swap")
    /\ locked[TickLock] = 0
    /\ noff[d] = 1

\* C19: lock progress. With every core taking and releasing the lock again and
\* again under weak fairness of each core's steps: whenever a core is in the
\* exchange loop of acquire some core eventually wins the exchange; the lock
\* word does not stay clear forever while a core is in the loop; and in every
\* reachable state some core can take a step that changes the state.
C19_LockProgress ==
  /\ (\E c \in Cores : At(c, "acquire", "swap")) ~> (\E d \in Cores : Wins(d, TickLock))
  /\ ~<>[](locked[TickLock] = 0 /\ \E c \in Cores : At(c, "acquire", "swap"))
  /\ [](ENABLED <<Next>>_vars)

\* Every core but one is in the exchange loop while the remaining core is in
\* release, about to clear the lock word.
C19_Witness ==
  \E d \in Cores :
    /\ At(d, "release", "clear")
    /\ \A c \in Cores \ {d} : At(c, "acquire", "swap") /\ Top(c).lk = TickLock

====
